---- MODULE Spec2Model ----
\* A model of the eo-learn workshop notebooks: the EOPatch feature store as the
\* notebooks use it, the tasks the notebooks define (AddFeature, RenameFeature,
\* TimeLapseTask, CloudCoverageFilter), the workflows they build and the
\* executor run they start.  The library classes themselves (EOPatch,
\* EOWorkflow, LinearWorkflow, EOExecutor, SimpleFilterTask, ...) are imported
\* by the notebooks; they are modelled by the contract the notebooks state for
\* them in their cells and comments.
EXTENDS Integers, Sequences, FiniteSets, TLC

VARIABLES
    patch,      \* the EOPatch of the building-blocks cells: a dict feature key -> array
    lastOp,     \* the last call made on that patch and how it ended
    nOps,       \* number of calls made so far
    wf,         \* the workflow being executed
    wfData,     \* the 'data' execution argument of add_feature_task
    inPlace,    \* the library tasks that modify their input patch in place
    heap,       \* the EOPatch objects created so far, by object id
    result,     \* task -> id of the patch object it returned
    inputs,     \* task -> ids of the patch objects it was called with
    order,      \* the tasks executed so far, in execution order
    gifs,       \* file name -> the frames written to that GIF
    disk,       \* eopatch folder -> the patch saved there
    loaded,     \* the frames the source task of the workflow produced
    kept,       \* the frames the patch held right after filter_task
    workers,    \* the workers argument of executor.run
    execStatus, \* execution_args index -> pending, running, finished or failed
    execRuns,   \* execution_args index -> times the workflow was started for it
    saved,      \* execution_args index -> the patch its save_task wrote
    stats,      \* the indices the executor recorded as failed
    runState,   \* executor.run: "running" or "returned"
    report,     \* what make_report wrote, once it has been called
    notebook,   \* the notebook whose water-monitoring workflow is executed
    wpatch,     \* the EOPatch handed along that workflow: feature key -> value
    wdone,      \* the tasks of that workflow executed so far, in order
    werr,       \* the exception that ended the workflow, or "none"
    detected,   \* per frame: what WaterDetector.detect_water was given and returned
    plot        \* what plot_water_levels drew, once it has been called

patchVars == <<patch, lastOp, nOps>>
wfVars == <<wf, wfData, inPlace, heap, result, inputs, order, gifs, disk, loaded, kept>>
execVars == <<workers, execStatus, execRuns, saved, stats, runState, report>>
waterVars == <<notebook, wpatch, wdone, werr, detected, plot>>
vars == <<patch, lastOp, nOps, wf, wfData, inPlace, heap, result, inputs, order, gifs,
          disk, loaded, kept, workers, execStatus, execRuns, saved, stats, runState,
          report, notebook, wpatch, wdone, werr, detected, plot>>

\* No water-monitoring workflow has been started.
NoPlot == [max_coverage |-> <<0, 1>>, dates |-> <<>>, levels |-> <<>>, coverage |-> <<>>,
           drawn |-> FALSE]
WaterIdle ==
    /\ notebook = "none"
    /\ wpatch = <<>>
    /\ wdone = <<>>
    /\ werr = "none"
    /\ detected = <<>>
    /\ plot = NoPlot

\* ---------------------------------------------------------------- bounds
MaxOps == 2
MaxFrames == 2
MaxWorkers == 3

\* ---------------------------------------------------------------- EOPatch
\* The raster rows of the FeatureType table.
RasterTypes ==
    {"DATA", "MASK", "SCALAR", "LABEL",
     "DATA_TIMELESS", "MASK_TIMELESS", "SCALAR_TIMELESS", "LABEL_TIMELESS"}

\* Column "Shape" of the FeatureType table: t x n x m x d, t x d, n x m x d, d.
FeatureNdimBadTimeless(ftype) ==
    CASE ftype \in {"DATA", "MASK", "DATA_TIMELESS", "MASK_TIMELESS"} -> 4
      [] ftype \in {"SCALAR", "LABEL"} -> 2
      [] OTHER -> 1

FeatureNdim(ftype) ==
    CASE ftype \in {"DATA", "MASK"} -> 4
      [] ftype \in {"SCALAR", "LABEL"} -> 2
      [] ftype \in {"DATA_TIMELESS", "MASK_TIMELESS"} -> 3
      [] OTHER -> 1

FeatureNames == {"NEW_BANDS", "timeless_example"}
FeatureKeys == RasterTypes \X FeatureNames

\* The array shapes the notebooks create: np.zeros((5, 10, 10, 3)),
\* np.zeros((10, 10, 13)), np.zeros((10, 3)) and a vector of 3 values.
Shapes == {<<5, 10, 10, 3>>, <<10, 10, 13>>, <<10, 3>>, <<3>>}

\* idx * np.ones(shape): an array is its shape and the value it is filled with.
Fills == {0, 1}
Arrays == [shape : Shapes, fill : Fills]

\* numpy's ndarray.ndim
Ndim(array) == Len(array.shape)

\* EOPatch(): no feature yet.  A patch is a function whose domain is the set of
\* the features it holds.
EmptyPatch == [k \in {} |-> [shape |-> <<>>, fill |-> 0]]

Has(p, key) == key \in DOMAIN p
Store(p, key, array) == [k \in DOMAIN p \cup {key} |-> IF k = key THEN array ELSE p[k]]
Remove(p, key) == [k \in DOMAIN p \ {key} |-> p[k]]

\* eopatch[ftype][name] = array: the container checks the number of dimensions
\* and raises ValueError before anything is stored.
SetFeatureUnchecked(p, key, array) ==
    [exc |-> "none", patch |-> Store(p, key, array)]

SetFeature(p, key, array) ==
    IF Ndim(array) = FeatureNdim(key[1])
    THEN [exc |-> "none", patch |-> Store(p, key, array)]
    ELSE [exc |-> "ValueError", patch |-> p]

\* del eopatch[ftype][name]
DelFeature(p, key) ==
    IF ~Has(p, key)
    THEN [exc |-> "KeyError", patch |-> p]
    ELSE [exc |-> "none", patch |-> Remove(p, key)]

\* AddFeature.execute(eopatch, *, data): eopatch[self.feature] = data; return eopatch
AddFeatureExecuteWrongKey(p, feature, data) ==
    LET other == CHOOSE k \in FeatureKeys : k[1] = feature[1] /\ k # feature
        r == SetFeature(p, other, data)
    IN  [exc |-> r.exc, patch |-> r.patch,
         ret |-> IF r.exc = "none" THEN "eopatch" ELSE "nothing"]

AddFeatureExecute(p, feature, data) ==
    LET r == SetFeature(p, feature, data)
    IN  [exc |-> r.exc, patch |-> r.patch,
         ret |-> IF r.exc = "none" THEN "eopatch" ELSE "nothing"]

\* RenameFeature.execute(eopatch):
\*     eopatch[self.new_feature] = eopatch[self.feature]
\*     del eopatch[self.feature]
\*     return eopatch
RenameFeatureExecuteNoDel(p, feature, new_feature) ==
    IF ~Has(p, feature)
    THEN [exc |-> "KeyError", patch |-> p, ret |-> "nothing"]
    ELSE LET r == SetFeature(p, new_feature, p[feature])
         IN  [exc |-> r.exc, patch |-> r.patch,
              ret |-> IF r.exc = "none" THEN "eopatch" ELSE "nothing"]

RenameFeatureExecute(p, feature, new_feature) ==
    IF ~Has(p, feature)
    THEN [exc |-> "KeyError", patch |-> p, ret |-> "nothing"]
    ELSE LET r == SetFeature(p, new_feature, p[feature])
         IN  IF r.exc # "none"
             THEN [exc |-> r.exc, patch |-> p, ret |-> "nothing"]
             ELSE LET d == DelFeature(r.patch, feature)
                  IN  [exc |-> d.exc, patch |-> d.patch, ret |-> "eopatch"]

NoKey == <<"-", "-">>
NoArray == [shape |-> <<>>, fill |-> 0]
Old(p, key) == IF Has(p, key) THEN p[key] ELSE NoArray
NoOp == [op |-> "init", feature |-> NoKey, new_feature |-> NoKey,
         data |-> NoArray, old |-> NoArray, exc |-> "none", ret |-> "nothing"]

\* EOPatch.load(INPUT_EOPATCH): a patch that already holds features.
TutorialEOPatch ==
    Store(Store(EmptyPatch, <<"DATA", "NEW_BANDS">>,
                [shape |-> <<5, 10, 10, 3>>, fill |-> 0]),
          <<"MASK_TIMELESS", "timeless_example">>,
          [shape |-> <<10, 10, 13>>, fill |-> 0])


\* ---------------------------------------------------------------- frames
\* One acquisition of DATA 'BANDS-S2-L1C': its timestamp, the reflectances of
\* bands 0..3 of its pixels in tenths, and whether it has been warped by the
\* coregistration.
Spectra == {<<1, 2, 3, 4>>, <<0, 5, 2, 1>>}
FramesOfLen(n) ==
    {[i \in 1..n |-> [ts |-> i, bands |-> f[i], coreg |-> FALSE]] : f \in [1..n -> Spectra]}
FrameSeqs == UNION {FramesOfLen(n) : n \in 0..MaxFrames}

\* A cloud mask of one frame: height x width pixels, 1 = cloud.  The grid has
\* 20 pixels, so that one cloudy pixel is a coverage of exactly max_cc = 0.05;
\* the masks taken are those with the first 0, 1, 2 or all 20 pixels cloudy.
GridShape == <<4, 5>>
CloudyPixelCounts == {0, 1, 2, 20}
MaskWith(k) ==
    [r \in 1..GridShape[1] |->
        [c \in 1..GridShape[2] |-> IF (r - 1) * GridShape[2] + c <= k THEN 1 ELSE 0]]
Masks == {MaskWith(k) : k \in CloudyPixelCounts}

RECURSIVE SumSeq(_)
SumSeq(s) == IF s = <<>> THEN 0 ELSE s[1] + SumSeq(Tail(s))
RECURSIVE SumRows(_)
SumRows(m) == IF m = <<>> THEN 0 ELSE SumSeq(m[1]) + SumRows(Tail(m))

\* cloud_filter = CloudCoverageFilter(max_cc=0.05), as a fraction
MaxCC == <<5, 100>>

\* CloudCoverageFilter.__call__(cloud_mask):
\*     height, width, _ = cloud_mask.shape
\*     cloud_coverage = np.sum(cloud_mask) / (height * width)
\*     return cloud_coverage <= self.max_cc
CloudCoverageFilterStrict(max_cc, cloud_mask) ==
    LET height == Len(cloud_mask)
        width == Len(cloud_mask[1])
    IN  SumRows(cloud_mask) * max_cc[2] < max_cc[1] * (height * width)

CloudCoverageFilter(max_cc, cloud_mask) ==
    LET height == Len(cloud_mask)
        width == Len(cloud_mask[1])
    IN  SumRows(cloud_mask) * max_cc[2] <= max_cc[1] * (height * width)

Min(a, b) == IF a < b THEN a ELSE b
Max(a, b) == IF a > b THEN a ELSE b

\* np.array(np.clip(rgb_image * brightness_factor, 0, 1) * 255, dtype=np.uint8)
\* on a reflectance given in tenths.
ToUint8(tenths, brightness_factor) ==
    (Min(Max(tenths * brightness_factor, 0), 10) * 255) \div 10

\* The body of TimeLapseTask's loop: image[..., [3, 2, 1]], brightened, clipped
\* and cast.  Band b of the notebook is position b + 1 here.
RgbImage(frame, brightness_factor) ==
    [rgb |-> <<ToUint8(frame.bands[4], brightness_factor),
               ToUint8(frame.bands[3], brightness_factor),
               ToUint8(frame.bands[2], brightness_factor)>>,
     coreg |-> frame.coreg]

\* TimeLapseTask.execute: one writer.append_data per image of the feature.
RenderFirstOnly(frames, brightness_factor) ==
    IF frames = <<>> THEN <<>> ELSE <<RgbImage(frames[1], brightness_factor)>>

Render(frames, brightness_factor) ==
    [i \in 1..Len(frames) |-> RgbImage(frames[i], brightness_factor)]

\* TimeLapseTask(timelapse_dir, filename, fps=6, brightness_factor=3)
BrightnessFactor == 3

\* ---------------------------------------------------------------- tasks
\* A patch object of a workflow: its features given by shape (feat), the frames
\* of DATA 'BANDS-S2-L1C' with their timestamps, and MASK 'clm' when present.
WfPatch(feat, frames) == [feat |-> feat, frames |-> frames, clm |-> <<>>, hasClm |-> FALSE]

NewLabel == <<"LABEL", "NEW_LABEL">>

\* SimpleFilterTask((FeatureType.MASK, 'clm'), cloud_filter): the frames whose
\* mask passes the filter, in their order; every time-dependent feature and the
\* timestamps are cut alike.
RECURSIVE GoodIdxs(_, _)
GoodIdxs(clm, i) ==
    IF i > Len(clm) THEN <<>>
    ELSE (IF CloudCoverageFilter(MaxCC, clm[i]) THEN <<i>> ELSE <<>>) \o GoodIdxs(clm, i + 1)

SimpleFilter(p) ==
    LET good == GoodIdxs(p.clm, 1)
    IN  [p EXCEPT !.frames = [i \in 1..Len(good) |-> p.frames[good[i]]],
                  !.clm = [i \in 1..Len(good) |-> p.clm[good[i]]]]

\* ThunderRegistration((FeatureType.DATA, 'BANDS-S2-L1C'), channel=2): every
\* frame of the feature is warped.
Coregister(p) ==
    [p EXCEPT !.frames = [i \in 1..Len(p.frames) |-> [p.frames[i] EXCEPT !.coreg = TRUE]]]

\* ---------------------------------------------------------------- workflows
Dep(task, deps) == [task |-> task, deps |-> deps]

\* workflow = EOWorkflow([(load_task, [], ...), (add_feature_task, [load_task], ...),
\*                        (save_task, [add_feature_task], ...)])
EOWorkflowTaskList ==
    << Dep("load_task", <<>>),
       Dep("add_feature_task", <<"load_task">>),
       Dep("save_task", <<"add_feature_task">>) >>

\* LinearWorkflow(t1, ..., tn): the first task starts the chain and each next
\* task takes the patch of the one before it.
LinearWorkflowStar(tasks) ==
    [i \in 1..Len(tasks) |-> Dep(tasks[i], IF i = 1 THEN <<>> ELSE <<tasks[1]>>)]

LinearWorkflow(tasks) ==
    [i \in 1..Len(tasks) |-> Dep(tasks[i], IF i = 1 THEN <<>> ELSE <<tasks[i - 1]>>)]

\* workflow = LinearWorkflow(load_task, add_feature_task, save_task)
LinearTaskList == LinearWorkflow(<<"load_task", "add_feature_task", "save_task">>)

\* workflow = LinearWorkflow(download_task, timelapse_task, save_task)
SimpleTaskListSaveFirst == LinearWorkflow(<<"download_task", "save_task", "timelapse_task">>)

SimpleTaskList == LinearWorkflow(<<"download_task", "timelapse_task", "save_task">>)

\* task_list of the advanced timelapse workflow
AdvancedTaskListEarlyTimelapse ==
    << Dep("load_task", <<>>),
       Dep("timelapse_task_simple", <<"load_task">>),
       Dep("cloud_task", <<"load_task">>),
       Dep("filter_task", <<"cloud_task">>),
       Dep("timelapse_task_filtered", <<"cloud_task">>),
       Dep("coregistration_task", <<"filter_task">>),
       Dep("timelapse_task_filtered_coregistered", <<"coregistration_task">>) >>

AdvancedTaskList ==
    << Dep("load_task", <<>>),
       Dep("timelapse_task_simple", <<"load_task">>),
       Dep("cloud_task", <<"load_task">>),
       Dep("filter_task", <<"cloud_task">>),
       Dep("timelapse_task_filtered", <<"filter_task">>),
       Dep("coregistration_task", <<"filter_task">>),
       Dep("timelapse_task_filtered_coregistered", <<"coregistration_task">>) >>

Workflows == {"eoworkflow", "linear", "simple", "advanced"}

TaskList(w) ==
    CASE w = "eoworkflow" -> EOWorkflowTaskList
      [] w = "linear" -> LinearTaskList
      [] w = "simple" -> SimpleTaskList
      [] w = "advanced" -> AdvancedTaskList
      [] OTHER -> <<>>

Range(s) == {s[i] : i \in 1..Len(s)}
Tasks(w) == {TaskList(w)[i].task : i \in 1..Len(TaskList(w))}
DepsOf(w, t) ==
    LET i == CHOOSE j \in 1..Len(TaskList(w)) : TaskList(w)[j].task = t
    IN  TaskList(w)[i].deps

AllTasks ==
    {"load_task", "add_feature_task", "save_task", "download_task", "timelapse_task",
     "timelapse_task_simple", "cloud_task", "filter_task", "timelapse_task_filtered",
     "coregistration_task", "timelapse_task_filtered_coregistered"}

\* The execution arguments and constructor arguments of the notebooks.
LoadFolder(w) == IF w = "advanced" THEN "eopatch" ELSE "TutorialEOPatch"
SaveFolder(w) ==
    CASE w = "eoworkflow" -> "WorkflowEOPatch"
      [] w = "linear" -> "OutputEOPatch2"
      [] OTHER -> "eopatch"
GifName(t) ==
    CASE t = "timelapse_task_filtered" -> "timelapse_filtered.gif"
      [] t = "timelapse_task_filtered_coregistered" -> "timelapse_filtered_coregistered.gif"
      [] OTHER -> "timelapse_simple.gif"

TimeLapseTasks ==
    {"timelapse_task", "timelapse_task_simple", "timelapse_task_filtered",
     "timelapse_task_filtered_coregistered"}

\* A task can be executed once all the tasks of its dependency list have.
Ready(t) ==
    /\ t \in Tasks(wf)
    /\ t \notin Range(order)
    /\ \A d \in Range(DepsOf(wf, t)) : d \in Range(order)

\* The patches handed to a task: the results of its dependencies, in order.
InputsOf(t) == [i \in 1..Len(DepsOf(wf, t)) |-> result[DepsOf(wf, t)[i]]]

NoObject == 0

Put(f, k, v) == [x \in DOMAIN f \cup {k} |-> IF x = k THEN v ELSE f[x]]

\* The task returned the patch object id, having been called with InputsOf(t).
Returned(t, id) ==
    /\ result' = [result EXCEPT ![t] = id]
    /\ inputs' = [inputs EXCEPT ![t] = InputsOf(t)]
    /\ order' = Append(order, t)

\* No executor has been created.
ExecutorIdle ==
    /\ workers = 0
    /\ execStatus = <<>>
    /\ execRuns = <<>>
    /\ saved = <<>>
    /\ stats = {}
    /\ runState = "idle"
    /\ report = [made |-> FALSE, executions |-> 0, failed |-> {}]

\* No workflow is being executed.
WorkflowIdle ==
    /\ wf = "none"
    /\ wfData = NoArray
    /\ inPlace = {}
    /\ heap = <<>>
    /\ result = [t \in AllTasks |-> NoObject]
    /\ inputs = [t \in AllTasks |-> <<>>]
    /\ order = <<>>
    /\ gifs = [n \in {} |-> <<>>]
    /\ disk = [n \in {} |-> WfPatch(EmptyPatch, <<>>)]
    /\ loaded = <<>>
    /\ kept = <<>>

\* The folders on disk before the workflow runs: the tutorial patch for the
\* building-blocks workflows, the patch saved by the simple timelapse workflow
\* for the advanced one.
InitialDisks(w) ==
    CASE w \in {"eoworkflow", "linear"} ->
            {Put(<<>>, "TutorialEOPatch", WfPatch(f, <<>>)) : f \in {EmptyPatch, TutorialEOPatch}}
      [] w = "advanced" ->
            {Put(<<>>, "eopatch", WfPatch(EmptyPatch, fr)) : fr \in FrameSeqs}
      [] OTHER -> {<<>>}

WorkflowInit ==
    /\ wf \in Workflows
    /\ wfData \in IF wf \in {"eoworkflow", "linear"}
                   THEN {a \in Arrays : a.shape = <<10, 3>>} ELSE {NoArray}
    /\ inPlace \in IF wf = "advanced"
                    THEN SUBSET {"filter_task", "coregistration_task"} ELSE {{}}
    /\ heap = <<>>
    /\ result = [t \in AllTasks |-> NoObject]
    /\ inputs = [t \in AllTasks |-> <<>>]
    /\ order = <<>>
    /\ gifs = <<>>
    /\ disk \in InitialDisks(wf)
    /\ loaded = <<>>
    /\ kept = <<>>
    /\ patch = EmptyPatch /\ lastOp = NoOp /\ nOps = 0
    /\ ExecutorIdle
    /\ WaterIdle

\* LoadFromDisk(folder).execute(eopatch_folder=...): a new patch object with
\* what the folder holds.
ExecuteLoad ==
    /\ Ready("load_task")
    /\ heap' = Append(heap, disk[LoadFolder(wf)])
    /\ loaded' = disk[LoadFolder(wf)].frames
    /\ Returned("load_task", Len(heap) + 1)
    /\ UNCHANGED patchVars
    /\ UNCHANGED execVars
    /\ UNCHANGED waterVars
    /\ UNCHANGED <<wf, wfData, inPlace, gifs, disk, kept>>

\* S2L1CWCSInput(layer='BANDS-S2-L1C').execute(bbox=..., time_interval=...): a
\* new patch object with the acquisitions the service returns.
ExecuteDownload ==
    /\ Ready("download_task")
    /\ \E frames \in FrameSeqs :
          /\ heap' = Append(heap, WfPatch(EmptyPatch, frames))
          /\ loaded' = frames
    /\ Returned("download_task", Len(heap) + 1)
    /\ UNCHANGED patchVars
    /\ UNCHANGED execVars
    /\ UNCHANGED waterVars
    /\ UNCHANGED <<wf, wfData, inPlace, gifs, disk, kept>>

\* AddFeature(new_feature).execute(eopatch, data=...)
ExecuteAddFeature ==
    /\ Ready("add_feature_task")
    /\ LET id == InputsOf("add_feature_task")[1]
           r == AddFeatureExecute(heap[id].feat, NewLabel, wfData)
       IN  /\ r.exc = "none"
           /\ heap' = [heap EXCEPT ![id].feat = r.patch]
           /\ Returned("add_feature_task", id)
    /\ UNCHANGED patchVars
    /\ UNCHANGED execVars
    /\ UNCHANGED waterVars
    /\ UNCHANGED <<wf, wfData, inPlace, gifs, disk, loaded, kept>>

\* SaveToDisk(folder).execute(eopatch, eopatch_folder=...)
ExecuteSave ==
    /\ Ready("save_task")
    /\ LET id == InputsOf("save_task")[1]
       IN  /\ disk' = Put(disk, SaveFolder(wf), heap[id])
           /\ Returned("save_task", id)
    /\ UNCHANGED patchVars
    /\ UNCHANGED execVars
    /\ UNCHANGED waterVars
    /\ UNCHANGED <<wf, wfData, inPlace, heap, gifs, loaded, kept>>

\* TimeLapseTask.execute(eopatch): writes the GIF and returns the patch it got.
ExecuteTimeLapse(t) ==
    /\ Ready(t)
    /\ LET id == InputsOf(t)[1]
       IN  /\ gifs' = Put(gifs, GifName(t), Render(heap[id].frames, BrightnessFactor))
           /\ Returned(t, id)
    /\ UNCHANGED patchVars
    /\ UNCHANGED execVars
    /\ UNCHANGED waterVars
    /\ UNCHANGED <<wf, wfData, inPlace, heap, disk, loaded, kept>>

\* AddCloudMaskTask(..., cmask_feature='clm'): saves a cloud mask for every
\* frame into the MASK feature 'clm' of the patch.
ExecuteCloudMask ==
    /\ Ready("cloud_task")
    /\ LET id == InputsOf("cloud_task")[1]
       IN  /\ \E clm \in [1..Len(heap[id].frames) -> Masks] :
                 heap' = [heap EXCEPT ![id].clm = clm, ![id].hasClm = TRUE]
           /\ Returned("cloud_task", id)
    /\ UNCHANGED patchVars
    /\ UNCHANGED execVars
    /\ UNCHANGED waterVars
    /\ UNCHANGED <<wf, wfData, inPlace, gifs, disk, loaded, kept>>

\* A library task that changes the frames of a patch: on the patch it was
\* given, or on a copy of it that it returns.
ApplyTo(t, id, p) ==
    IF t \in inPlace
    THEN /\ heap' = [heap EXCEPT ![id] = p]
         /\ Returned(t, id)
    ELSE /\ heap' = Append(heap, p)
         /\ Returned(t, Len(heap) + 1)

\* filter_task = SimpleFilterTask((FeatureType.MASK, 'clm'), cloud_filter)
ExecuteFilter ==
    /\ Ready("filter_task")
    /\ LET id == InputsOf("filter_task")[1]
           p == SimpleFilter(heap[id])
       IN  /\ ApplyTo("filter_task", id, p)
           /\ kept' = p.frames
    /\ UNCHANGED patchVars
    /\ UNCHANGED execVars
    /\ UNCHANGED waterVars
    /\ UNCHANGED <<wf, wfData, inPlace, gifs, disk, loaded>>

\* coregistration_task = ThunderRegistration(...)
ExecuteCoregistration ==
    /\ Ready("coregistration_task")
    /\ LET id == InputsOf("coregistration_task")[1]
       IN  ApplyTo("coregistration_task", id, Coregister(heap[id]))
    /\ UNCHANGED patchVars
    /\ UNCHANGED execVars
    /\ UNCHANGED waterVars
    /\ UNCHANGED <<wf, wfData, inPlace, gifs, disk, loaded, kept>>

WorkflowNext ==
    \/ ExecuteLoad
    \/ ExecuteDownload
    \/ ExecuteAddFeature
    \/ ExecuteSave
    \/ \E t \in TimeLapseTasks : ExecuteTimeLapse(t)
    \/ ExecuteCloudMask
    \/ ExecuteFilter
    \/ ExecuteCoregistration

SpecWorkflow == WorkflowInit /\ [][WorkflowNext]_vars

\* workflow.execute(...) has returned: no task is left to run.
WorkflowDone == wf \in Workflows /\ \A t \in Tasks(wf) : t \in Range(order)

\* ---------------------------------------------------------------- patch cells
PatchInit ==
    /\ patch \in {EmptyPatch, TutorialEOPatch}
    /\ lastOp = NoOp
    /\ nOps = 0
    /\ WorkflowIdle
    /\ ExecutorIdle
    /\ WaterIdle

\* patch.data['example'] = example_bands
SetItem(key, array) ==
    /\ nOps < MaxOps
    /\ LET r == SetFeature(patch, key, array)
       IN  /\ patch' = r.patch
           /\ lastOp' = [op |-> "setitem", feature |-> key, new_feature |-> NoKey,
                         data |-> array, old |-> Old(patch, key), exc |-> r.exc,
                         ret |-> "nothing"]
    /\ nOps' = nOps + 1
    /\ UNCHANGED wfVars
    /\ UNCHANGED execVars
    /\ UNCHANGED waterVars

\* del new_eopatch[FeatureType.DATA]['BANDS']
DelItem(key) ==
    /\ nOps < MaxOps
    /\ LET r == DelFeature(patch, key)
       IN  /\ patch' = r.patch
           /\ lastOp' = [op |-> "delitem", feature |-> key, new_feature |-> NoKey,
                         data |-> NoArray, old |-> Old(patch, key), exc |-> r.exc,
                         ret |-> "nothing"]
    /\ nOps' = nOps + 1
    /\ UNCHANGED wfVars
    /\ UNCHANGED execVars
    /\ UNCHANGED waterVars

\* eopatch = add_feature_task.execute(eopatch, data=data)
AddFeatureTask(feature, data) ==
    /\ nOps < MaxOps
    /\ LET r == AddFeatureExecute(patch, feature, data)
       IN  /\ patch' = r.patch
           /\ lastOp' = [op |-> "AddFeature", feature |-> feature,
                         new_feature |-> NoKey, data |-> data, old |-> Old(patch, feature),
                         exc |-> r.exc, ret |-> r.ret]
    /\ nOps' = nOps + 1
    /\ UNCHANGED wfVars
    /\ UNCHANGED execVars
    /\ UNCHANGED waterVars

\* RenameFeature(feature, new_feature).execute(eopatch)
RenameFeatureTask(feature, new_feature) ==
    /\ nOps < MaxOps
    /\ LET r == RenameFeatureExecute(patch, feature, new_feature)
       IN  /\ patch' = r.patch
           /\ lastOp' = [op |-> "RenameFeature", feature |-> feature,
                         new_feature |-> new_feature, data |-> NoArray,
                         old |-> Old(patch, feature), exc |-> r.exc, ret |-> r.ret]
    /\ nOps' = nOps + 1
    /\ UNCHANGED wfVars
    /\ UNCHANGED execVars
    /\ UNCHANGED waterVars

\* The features a RenameFeature task is built for: one the patch holds, or
\* one it does not hold.
RenameSources(p) == DOMAIN p \cup {<<"LABEL", "NEW_BANDS">>}

PatchNext ==
    \/ \E k \in FeatureKeys, a \in Arrays : SetItem(k, a)
    \/ \E k \in FeatureKeys : DelItem(k)
    \/ \E k \in FeatureKeys, a \in Arrays : AddFeatureTask(k, a)
    \/ \E k \in RenameSources(patch), n \in FeatureKeys : RenameFeatureTask(k, n)

SpecPatch == PatchInit /\ [][PatchNext]_vars

\* ---------------------------------------------------------------- claims
\* The ranks the FeatureType table is claimed to mandate, written out.
ClaimedRank(ftype) ==
    CASE ftype = "DATA" -> 4
      [] ftype = "MASK" -> 4
      [] ftype = "DATA_TIMELESS" -> 3
      [] ftype = "MASK_TIMELESS" -> 3
      [] ftype = "SCALAR" -> 2
      [] ftype = "LABEL" -> 2
      [] ftype = "SCALAR_TIMELESS" -> 1
      [] ftype = "LABEL_TIMELESS" -> 1
      [] OTHER -> 0

OthersUnchanged(before, after, keys) ==
    \A k \in FeatureKeys \ keys :
        /\ Has(after, k) <=> Has(before, k)
        /\ Has(before, k) => after[k] = before[k]

C4_StoredRankMatchesCategory ==
    \A k \in DOMAIN patch : Len(patch[k].shape) = ClaimedRank(k[1])

\* C4 witness: after an assignment and a deletion the patch still holds a
\* timeless feature next to a newly stored scalar one.
C4_Witness ==
    /\ nOps = MaxOps
    /\ lastOp.op = "delitem" /\ lastOp.exc = "none"
    /\ \E k \in DOMAIN patch : k[1] = "MASK_TIMELESS"
    /\ \E k \in DOMAIN patch : k[1] = "SCALAR"

Pos(t) == CHOOSE i \in 1..Len(order) : order[i] = t
Ran(t) == t \in Range(order)
\* b has not run, or a ran before it
Before(a, b) == Ran(b) => (Ran(a) /\ Pos(a) < Pos(b))

\* The tasks t depends on, directly or through other tasks (n levels deep).
RECURSIVE Ancestors(_, _, _)
Ancestors(w, t, n) ==
    IF n = 0 THEN {}
    ELSE Range(DepsOf(w, t)) \cup
         UNION {Ancestors(w, d, n - 1) : d \in Range(DepsOf(w, t)) \cap Tasks(w)}

\* C1: every listed task runs exactly once and only after the tasks of its
\* dependency list; in the advanced timelapse graph load_task precedes
\* timelapse_task_simple and cloud_task, cloud_task precedes filter_task,
\* filter_task precedes timelapse_task_filtered and coregistration_task,
\* coregistration_task precedes timelapse_task_filtered_coregistered, in every
\* schedule, and the graph has no cycle.
C1_DependencyOrder ==
    /\ \A i, j \in 1..Len(order) : order[i] = order[j] => i = j
    /\ Range(order) \subseteq Tasks(wf)
    /\ (\A t \in AllTasks : ~Ready(t)) => \A t \in Tasks(wf) : Ran(t)
    /\ wf = "advanced" =>
          /\ Before("load_task", "timelapse_task_simple")
          /\ Before("load_task", "cloud_task")
          /\ Before("cloud_task", "filter_task")
          /\ Before("filter_task", "timelapse_task_filtered")
          /\ Before("filter_task", "coregistration_task")
          /\ Before("coregistration_task", "timelapse_task_filtered_coregistered")
          /\ \A t \in Tasks(wf) : t \notin Ancestors(wf, t, Cardinality(Tasks(wf)))

\* C1 witness: a complete run of the advanced workflow in which the simple
\* timelapse was the last task to run.
C1_Witness ==
    /\ wf = "advanced"
    /\ Len(order) = 7
    /\ order[7] = "timelapse_task_simple"
    /\ order[1] = "load_task"

\* What a GIF holds when it shows exactly the given frames.
Shows(name, frames) ==
    /\ name \in DOMAIN gifs
    /\ Len(gifs[name]) = Len(frames)
    /\ \A i \in 1..Len(frames) : gifs[name][i] = RgbImage(frames[i], 3)

Warped(frames) == [i \in 1..Len(frames) |-> [frames[i] EXCEPT !.coreg = TRUE]]

ChangedUnder(mutator, t) == mutator \in inPlace /\ Ran(mutator) /\ Pos(mutator) < Pos(t)

\* What the workflow does guarantee about C2's animations: a timelapse task
\* writes the frames held, when it runs, by the patch object it is given.
\* The coregistered timelapse always shows the kept
\* frames after coregistration; the filtered one shows the kept frames,
\* coregistered exactly when an in-place coregistration ran before it; the
\* simple one shows all loaded frames unless an in-place filter ran before it,
\* and then the kept frames (coregistered when an in-place coregistration ran
\* before it too).
C2_SharedPatchObject ==
    wf = "advanced" =>
        /\ Ran("timelapse_task_simple") =>
              LET t == "timelapse_task_simple"
                  base == IF ChangedUnder("filter_task", t) THEN kept ELSE loaded
              IN  Shows("timelapse_simple.gif",
                        IF ChangedUnder("filter_task", t)
                           /\ ChangedUnder("coregistration_task", t)
                        THEN Warped(base) ELSE base)
        /\ Ran("timelapse_task_filtered") =>
              Shows("timelapse_filtered.gif",
                    IF ChangedUnder("coregistration_task", "timelapse_task_filtered")
                    THEN Warped(kept) ELSE kept)
        /\ Ran("timelapse_task_filtered_coregistered") =>
              Shows("timelapse_filtered_coregistered.gif", Warped(kept))

\* The diverging case of C2: the simple timelapse ran after a filter that removed a cloudy
\* frame from the object it reads, and wrote fewer frames than were loaded.
C2_SimpleShowsKept ==
    /\ wf = "advanced"
    /\ WorkflowDone
    /\ ChangedUnder("filter_task", "timelapse_task_simple")
    /\ Len(kept) < Len(loaded)
    /\ Len(gifs["timelapse_simple.gif"]) = Len(kept)

ExecutionArgsCount == 5
ExecutionArgs == 0..(ExecutionArgsCount - 1)

\* add_feature_task: {'data': idx * np.ones((10, 3), dtype=np.uint8)}
ExecutionData(idx) == [shape |-> <<10, 3>>, fill |-> idx]

\* One execution of workflow = LinearWorkflow(load_task, add_feature_task,
\* save_task) with execution_args[idx]: what save_task writes to
\* 'ResultEOPatch{idx}'.
ExecuteWorkflow(idx) ==
    AddFeatureExecute(TutorialEOPatch, NewLabel, ExecutionData(idx)).patch

\* executor = EOExecutor(workflow, execution_args, ...); executor.run(workers=...)
ExecutorInit ==
    /\ workers \in 1..MaxWorkers
    /\ execStatus = [i \in ExecutionArgs |-> "pending"]
    /\ execRuns = [i \in ExecutionArgs |-> 0]
    /\ saved = <<>>
    /\ stats = {}
    /\ runState = "running"
    /\ report = [made |-> FALSE, executions |-> 0, failed |-> {}]
    /\ patch = EmptyPatch /\ lastOp = NoOp /\ nOps = 0
    /\ WorkflowIdle
    /\ WaterIdle

Running(st) == {i \in DOMAIN st : st[i] = "running"}

\* "The execution will use at most 3 parallel processes": a process is free.
CanStartOneMore(st, w) == Cardinality(Running(st)) <= w

CanStart(st, w) == Cardinality(Running(st)) < w

\* "EOWorkflow will be executed for each of these 5 dictionaries"
ToExecuteSkipFirst(st) == {i \in DOMAIN st : st[i] = "pending" /\ i > 0}

ToExecute(st) == {i \in DOMAIN st : st[i] = "pending"}

\* "handles any error that might occur in the process": the error of one
\* execution is kept with the statistics of that execution.
OnErrorCancelRest(st, i) ==
    [j \in DOMAIN st |-> IF j = i THEN "failed"
                         ELSE IF st[j] = "pending" THEN "cancelled" ELSE st[j]]

OnError(st, i) == [st EXCEPT ![i] = "failed"]

\* A worker process takes the next dictionary and starts the workflow with it.
StartExecution(i) ==
    /\ runState = "running"
    /\ i \in ToExecute(execStatus)
    /\ CanStart(execStatus, workers)
    /\ execStatus' = [execStatus EXCEPT ![i] = "running"]
    /\ execRuns' = [execRuns EXCEPT ![i] = @ + 1]
    /\ UNCHANGED <<workers, saved, stats, runState, report>>
    /\ UNCHANGED patchVars
    /\ UNCHANGED wfVars
    /\ UNCHANGED waterVars

\* The workflow of one execution ran to its end.
FinishExecution(i) ==
    /\ runState = "running"
    /\ i \in DOMAIN execStatus
    /\ execStatus[i] = "running"
    /\ execStatus' = [execStatus EXCEPT ![i] = "finished"]
    /\ saved' = Put(saved, i, ExecuteWorkflow(i))
    /\ UNCHANGED <<workers, execRuns, stats, runState, report>>
    /\ UNCHANGED patchVars
    /\ UNCHANGED wfVars
    /\ UNCHANGED waterVars

\* A task of one execution raised an error.
FailExecution(i) ==
    /\ runState = "running"
    /\ i \in DOMAIN execStatus
    /\ execStatus[i] = "running"
    /\ execStatus' = OnError(execStatus, i)
    /\ stats' = stats \cup {i}
    /\ UNCHANGED <<workers, execRuns, saved, runState, report>>
    /\ UNCHANGED patchVars
    /\ UNCHANGED wfVars
    /\ UNCHANGED waterVars

\* executor.run returns when no execution is left.
RunReturns ==
    /\ runState = "running"
    /\ \A i \in DOMAIN execStatus : execStatus[i] \in {"finished", "failed"}
    /\ runState' = "returned"
    /\ UNCHANGED <<workers, execStatus, execRuns, saved, stats, report>>
    /\ UNCHANGED patchVars
    /\ UNCHANGED wfVars
    /\ UNCHANGED waterVars

\* executor.make_report()
MakeReport ==
    /\ runState = "returned"
    /\ ~report.made
    /\ report' = [made |-> TRUE, executions |-> Cardinality(DOMAIN execStatus),
                  failed |-> stats]
    /\ UNCHANGED <<workers, execStatus, execRuns, saved, stats, runState>>
    /\ UNCHANGED patchVars
    /\ UNCHANGED wfVars
    /\ UNCHANGED waterVars

ExecutorNext ==
    \/ \E i \in ExecutionArgs : StartExecution(i)
    \/ \E i \in ExecutionArgs : FinishExecution(i)
    \/ \E i \in ExecutionArgs : FailExecution(i)
    \/ RunReturns
    \/ MakeReport

SpecExecutor == ExecutorInit /\ [][ExecutorNext]_vars

\* A started execution ends, a free worker takes a pending dictionary, and run
\* returns once nothing is left.
FairSpecExecutor ==
    /\ ExecutorInit
    /\ [][ExecutorNext]_vars
    /\ \A i \in ExecutionArgs : WF_vars(StartExecution(i))
    /\ \A i \in ExecutionArgs : WF_vars(FinishExecution(i) \/ FailExecution(i))
    /\ WF_vars(RunReturns)
    /\ WF_vars(MakeReport)

IsPrefix(s, t) == Len(s) <= Len(t) /\ \A i \in 1..Len(s) : s[i] = t[i]

\* C11: the simple timelapse workflow runs download_task, timelapse_task,
\* save_task in this order; the timelapse task returns the very patch it was
\* given, holding what download_task produced, and that is what save_task
\* writes to the folder 'eopatch'.
C11_TimeLapseLeavesPatch ==
    wf = "simple" =>
        /\ IsPrefix(order, <<"download_task", "timelapse_task", "save_task">>)
        /\ Ran("timelapse_task") =>
              /\ result["timelapse_task"] = result["download_task"]
              /\ heap[result["timelapse_task"]] = WfPatch(EmptyPatch, loaded)
              /\ Shows("timelapse_simple.gif", loaded)
        /\ Ran("save_task") =>
              /\ "eopatch" \in DOMAIN disk
              /\ disk["eopatch"] = WfPatch(EmptyPatch, loaded)

\* C11 witness: the simple workflow has finished on two downloaded frames.
C11_Witness ==
    /\ wf = "simple"
    /\ WorkflowDone
    /\ Len(loaded) = 2
    /\ Len(gifs["timelapse_simple.gif"]) = 2
    /\ disk["eopatch"].frames = loaded

\* The cloudy pixels of a mask, counted pixel by pixel.
CloudyPixels(mask) ==
    Cardinality({rc \in (1..Len(mask)) \X (1..Len(mask[1])) : mask[rc[1]][rc[2]] # 0})

\* C12: the step of filter_task keeps a frame exactly when its cloud coverage
\* sum(cloud_mask) / (height * width) is at most max_cc = 0.05 (coverage equal
\* to max_cc is kept), keeps the kept frames in their time order, each with its
\* own mask, and leaves the frames and the masks with the same number of time
\* slices.
C12_FilterKeepsIffCovered ==
    [][ order' = Append(order, "filter_task") =>
          LET p == heap[InputsOf("filter_task")[1]]
              q == heap'[result'["filter_task"]]
              n == Len(p.frames)
              Keep(i) == CloudyPixels(p.clm[i]) * 100 <= 5 * (Len(p.clm[i]) * Len(p.clm[i][1]))
              Rank(i) == Cardinality({j \in 1..i : Keep(j)})
          IN  /\ Len(q.frames) = Cardinality({i \in 1..n : Keep(i)})
              /\ Len(q.clm) = Len(q.frames)
              /\ \A i \in 1..n : Keep(i) =>
                    /\ q.frames[Rank(i)] = p.frames[i]
                    /\ q.clm[Rank(i)] = p.clm[i]
              /\ \A j, k \in 1..Len(q.frames) : j < k => q.frames[j].ts < q.frames[k].ts
      ]_vars

\* C12 witness: the filter has kept a frame whose coverage is exactly 0.05 (one
\* cloudy pixel of twenty) and has removed another frame.
C12_Witness ==
    /\ wf = "advanced"
    /\ Ran("filter_task")
    /\ Len(kept) = 1 /\ Len(loaded) = 2
    /\ CloudyPixels(heap[result["filter_task"]].clm[1]) = 1

\* ---------------------------------------------------------------- water monitoring
\* The water-level notebooks: an EOPatch with t acquisitions of height x width
\* pixels (one channel), handed along a LinearWorkflow.
MaxScenes == 2

\* The images the input tasks may deliver for one acquisition, one row of two
\* pixels each: IS_DATA (1 = data), CLM (1 = cloud), NDWI in tenths, and the
\* rasterised nominal water extent.
IsDataImages == { << <<1, 1>> >>, << <<0, 1>> >> }
ClmImages == { << <<0, 0>> >>, << <<1, 1>> >> }
NdwiImages == { << <<10, 10>> >>, << <<0, 5>> >> }
NominalWaterImages == { << <<1, 1>> >>, << <<1, 0>> >> }

\* feature keys of the water patch
Timestamp == <<"TIMESTAMP", "timestamp">>
TrueColor == <<"DATA", "TRUE-COLOR-S2-L1C">>
IsData == <<"MASK", "IS_DATA">>
Ndwi == <<"DATA", "NDWI">>
Clm == <<"MASK", "CLM">>
NominalWater == <<"MASK_TIMELESS", "NOMINAL_WATER">>
ValidData == <<"MASK", "VALID_DATA">>
CoverageKey == <<"SCALAR", "COVERAGE">>
WaterMask == <<"MASK", "WATER_MASK">>
WaterLevel == <<"SCALAR", "WATER_LEVEL">>
WaterOutline == <<"VECTOR", "WATER_OUTLINE">>

\* fractions num / den with den > 0, as pairs
RatSub(a, b) == <<a[1] * b[2] - b[1] * a[2], a[2] * b[2]>>
RatLess(a, b) == a[1] * b[2] < b[1] * a[2]
RatEq(a, b) == a[1] * b[2] = b[1] * a[2]

\* numpy on the arrays of the model
RECURSIVE Flatten(_)
Flatten(image) == IF image = <<>> THEN <<>> ELSE image[1] \o Flatten(Tail(image))
CountNonzero(array) == Cardinality({i \in 1..Len(array) : array[i] # 0})
Size(array) == Len(array)
Unique(array) == {array[i] : i \in 1..Len(array)}
NewAxis(vector) ==
    [shape |-> <<Len(vector), 1>>, v |-> [i \in 1..Len(vector) |-> <<vector[i]>>]]
Vector(vector) == [shape |-> <<Len(vector)>>, v |-> vector]

\* def coverage(array) / def calculate_coverage(array):
\*     return 1.0 - np.count_nonzero(array) / np.size(array)
CoverageNonzeroFraction(array) == <<CountNonzero(array), Size(array)>>

Coverage(array) == RatSub(<<1, 1>>, <<CountNonzero(array), Size(array)>>)

\* np.apply_along_axis(coverage, 1, rows): coverage of every row
ApplyCoverageAlongAxis1(rows) == [i \in 1..Len(rows) |-> Coverage(rows[i])]

\* ValidDataPredicate.__call__ / calculate_valid_data_mask:
\*     np.logical_and(eopatch.mask['IS_DATA'].astype(np.bool),
\*                    np.logical_not(eopatch.mask['CLM'].astype(np.bool)))
\* True is stored as 1, False as 0.
ValidDataPredicateOr(p) ==
    [i \in 1..Len(p[IsData]) |->
        [r \in 1..Len(p[IsData][i]) |->
            [c \in 1..Len(p[IsData][i][r]) |->
                IF p[IsData][i][r][c] # 0 \/ ~(p[Clm][i][r][c] # 0) THEN 1 ELSE 0]]]

ValidDataPredicate(p) ==
    [i \in 1..Len(p[IsData]) |->
        [r \in 1..Len(p[IsData][i]) |->
            [c \in 1..Len(p[IsData][i][r]) |->
                IF p[IsData][i][r][c] # 0 /\ ~(p[Clm][i][r][c] # 0) THEN 1 ELSE 0]]]

\* eopatch.add_feature(ftype, name, value) on a SCALAR feature: the value must
\* have the number of dimensions of the category.
AddScalarFeature(p, key, value) ==
    IF Len(value.shape) = FeatureNdim(key[1])
    THEN [patch |-> Put(p, key, value), exc |-> "none"]
    ELSE [patch |-> p, exc |-> "ValueError"]

\* AddValidDataCoverage.execute:
\*     vld = eopatch.get_feature(FeatureType.MASK, 'VALID_DATA')
\*     cvrg = np.apply_along_axis(coverage, 1, np.reshape(vld, (t, h * w)))
\*     eopatch.add_feature(FeatureType.SCALAR, 'COVERAGE', cvrg[:, np.newaxis])
AddValidDataCoverageNoNewAxis(p) ==
    LET vld == p[ValidData]
        cvrg == ApplyCoverageAlongAxis1([i \in 1..Len(vld) |-> Flatten(vld[i])])
    IN  AddScalarFeature(p, CoverageKey, Vector(cvrg))

AddValidDataCoverageExecute(p) ==
    LET vld == p[ValidData]
        cvrg == ApplyCoverageAlongAxis1([i \in 1..Len(vld) |-> Flatten(vld[i])])
    IN  AddScalarFeature(p, CoverageKey, NewAxis(cvrg))

\* ValidDataCoveragePredicate(0.2).__call__(array):
\*     return calculate_coverage(array) < self.threshold
CoverageThreshold == <<2, 10>>
ValidDataCoveragePredicate(threshold, array) == RatLess(Coverage(Flatten(array)), threshold)

\* SimpleFilterTask((FeatureType.MASK, 'VALID_DATA'), predicate): the frames
\* whose VALID_DATA passes; every time-dependent feature and the timestamps
\* are cut alike.
RECURSIVE GoodScenes(_, _)
GoodScenes(vld, i) ==
    IF i > Len(vld) THEN <<>>
    ELSE (IF ValidDataCoveragePredicate(CoverageThreshold, vld[i]) THEN <<i>> ELSE <<>>)
         \o GoodScenes(vld, i + 1)
Take(seq, good) == [j \in 1..Len(good) |-> seq[good[j]]]
TimeDependent(key) == key[1] \in {"DATA", "MASK", "SCALAR", "TIMESTAMP"}
RemoveCloudyScenes(p) ==
    LET good == GoodScenes(p[ValidData], 1)
    IN  [key \in DOMAIN p |->
            IF ~TimeDependent(key) THEN p[key]
            ELSE IF key[1] = "SCALAR"
                 THEN [shape |-> <<Len(good), p[key].shape[2]>>, v |-> Take(p[key].v, good)]
                 ELSE Take(p[key], good)]

\* threshold_otsu(ndwi) of an image with more than one value: a threshold that
\* separates the lowest value from the highest.
MinOf(S) == CHOOSE x \in S : \A y \in S : x <= y
MaxOf(S) == CHOOSE x \in S : \A y \in S : x >= y
ThresholdOtsu(ndwi) ==
    LET vals == Unique(Flatten(ndwi))
    IN  {MinOf(vals), (MinOf(vals) + MaxOf(vals)) \div 2}

\* WaterDetector.detect_water(ndwi), values in tenths:
\*     otsu_thr = 1.0
\*     if len(np.unique(ndwi)) > 1:
\*         otsu_thr = threshold_otsu(ndwi)
\*     return ndwi > otsu_thr
OtsuThr(ndwi, otsu) == IF Cardinality(Unique(Flatten(ndwi))) > 1 THEN otsu ELSE 10

DetectWaterInclusive(ndwi, otsu) ==
    [r \in 1..Len(ndwi) |->
        [c \in 1..Len(ndwi[r]) |-> IF ndwi[r][c] >= OtsuThr(ndwi, otsu) THEN 1 ELSE 0]]

DetectWater(ndwi, otsu) ==
    [r \in 1..Len(ndwi) |->
        [c \in 1..Len(ndwi[r]) |-> IF ndwi[r][c] > OtsuThr(ndwi, otsu) THEN 1 ELSE 0]]

\* WaterDetector.execute of workshop.ipynb, given the thresholds threshold_otsu
\* returns for the frames.
Times(mask, nominal) ==
    [r \in 1..Len(mask) |-> [c \in 1..Len(mask[r]) |-> mask[r][c] * nominal[r][c]]]
WaterDetectorExecute(p, otsus) ==
    LET water_masks == [i \in 1..Len(p[Ndwi]) |->
                           Times(DetectWater(p[Ndwi][i], otsus[i]), p[NominalWater])]
        water_levels == [i \in 1..Len(water_masks) |->
                           <<CountNonzero(Flatten(water_masks[i])),
                             CountNonzero(Flatten(p[NominalWater]))>>]
    IN  Put(Put(p, WaterMask, water_masks), WaterLevel, NewAxis(water_levels))

\* plot_water_levels(eopatch, max_coverage): the dates, water levels and
\* coverages with eopatch.scalar['COVERAGE'][..., 0] < max_coverage.
PlottedScenes(p, max_coverage) ==
    LET cov == p[CoverageKey].v
        Idx == {i \in 1..Len(cov) : RatLess(cov[i][1], max_coverage)}
    IN  SelectSeq([i \in 1..Len(cov) |-> i], LAMBDA i : i \in Idx)

PlotWaterLevelsOf(p, max_coverage) ==
    LET idx == PlottedScenes(p, max_coverage)
    IN  [max_coverage |-> max_coverage,
         dates |-> Take(p[Timestamp], idx),
         levels |-> Take(p[WaterLevel].v, idx),
         coverage |-> Take(p[CoverageKey].v, idx),
         drawn |-> TRUE]

\* workflow = LinearWorkflow(input_task, add_ndwi, cloud_det, add_nominal_water,
\*                           add_valmask, add_coverage, water_det)
WaterWorkflow ==
    LinearWorkflow(<<"input_task", "add_ndwi", "cloud_det", "add_nominal_water",
                     "add_valmask", "add_coverage", "water_det">>)

\* workflow = LinearWorkflow(input_task, add_ndwi, cloud_detection, add_nominal_water,
\*                           add_valid_mask, add_coverage, remove_cloudy_scenes,
\*                           water_detection)
WorkshopWorkflowCoverageFirst ==
    LinearWorkflow(<<"input_task", "add_ndwi", "cloud_detection", "add_nominal_water",
                     "add_coverage", "add_valid_mask", "remove_cloudy_scenes",
                     "water_detection">>)

WorkshopWorkflow ==
    LinearWorkflow(<<"input_task", "add_ndwi", "cloud_detection", "add_nominal_water",
                     "add_valid_mask", "add_coverage", "remove_cloudy_scenes",
                     "water_detection">>)

Notebooks == {"part_000", "workshop"}
WaterTaskList(nb) ==
    CASE nb = "part_000" -> WaterWorkflow
      [] nb = "workshop" -> WorkshopWorkflow
      [] OTHER -> <<>>
WaterTasks(nb) == {WaterTaskList(nb)[i].task : i \in 1..Len(WaterTaskList(nb))}
WaterDepsOf(nb, t) ==
    LET i == CHOOSE j \in 1..Len(WaterTaskList(nb)) : WaterTaskList(nb)[j].task = t
    IN  WaterTaskList(nb)[i].deps

\* The task may run: it has not run, its dependencies have, and no exception
\* has ended the workflow.
WaterReady(t) ==
    /\ werr = "none"
    /\ t \in WaterTasks(notebook)
    /\ t \notin Range(wdone)
    /\ \A d \in Range(WaterDepsOf(notebook, t)) : d \in Range(wdone)

\* The features a task reads from the patch it is given.
ReadsOf(t) ==
    CASE t = "input_task" -> {}
      [] t = "add_ndwi" -> {Timestamp}
      [] t \in {"cloud_det", "cloud_detection"} -> {Timestamp}
      [] t = "add_nominal_water" -> {IsData}
      [] t \in {"add_valmask", "add_valid_mask"} -> {IsData, Clm}
      [] t = "add_coverage" -> {ValidData}
      [] t = "remove_cloudy_scenes" -> {ValidData}
      [] t = "water_detection" -> {Ndwi, NominalWater}
      [] t = "water_det" -> {Ndwi, Timestamp}

Ok(p) == [patch |-> p, exc |-> "none"]
NScenes == IF Timestamp \in DOMAIN wpatch THEN Len(wpatch[Timestamp]) ELSE 0

\* One task of the chain: it raises KeyError when a feature it reads is not in
\* the patch, passes on an exception of its body, and otherwise hands the
\* patch on.
WaterStep(t, r) ==
    /\ WaterReady(t)
    /\ IF ~(ReadsOf(t) \subseteq DOMAIN wpatch)
       THEN werr' = "KeyError" /\ UNCHANGED <<wpatch, wdone>>
       ELSE IF r.exc # "none"
            THEN werr' = r.exc /\ UNCHANGED <<wpatch, wdone>>
            ELSE wpatch' = r.patch /\ wdone' = Append(wdone, t) /\ werr' = werr
    /\ UNCHANGED notebook

WaterInit ==
    /\ notebook \in Notebooks
    /\ wpatch = <<>>
    /\ wdone = <<>>
    /\ werr = "none"
    /\ detected = <<>>
    /\ plot = NoPlot
    /\ patch = EmptyPatch /\ lastOp = NoOp /\ nOps = 0
    /\ WorkflowIdle
    /\ ExecutorIdle

\* input_task = S2L1CWCSInput('TRUE-COLOR-S2-L1C', ...): a new patch with the
\* acquisitions of the time interval, their timestamps and the IS_DATA mask.
ExecuteInputTask ==
    /\ \E t \in 1..MaxScenes : \E is_data \in [1..t -> IsDataImages] :
          WaterStep("input_task",
                    Ok(Put(Put(Put(<<>>, Timestamp, [i \in 1..t |-> i]),
                               TrueColor, [i \in 1..t |-> i]),
                           IsData, is_data)))
    /\ UNCHANGED <<detected, plot>>
    /\ UNCHANGED patchVars
    /\ UNCHANGED wfVars
    /\ UNCHANGED execVars

\* add_ndwi = S2L1CWCSInput('NDWI'): adds the NDWI layer for the same dates.
ExecuteAddNdwi ==
    /\ \E ndwi \in [1..NScenes -> NdwiImages] :
          WaterStep("add_ndwi", Ok(Put(wpatch, Ndwi, ndwi)))
    /\ UNCHANGED <<detected, plot>>
    /\ UNCHANGED patchVars
    /\ UNCHANGED wfVars
    /\ UNCHANGED execVars

\* cloud_det / cloud_detection = AddCloudMaskTask(..., cmask_feature='CLM', ...)
ExecuteCloudDetection ==
    /\ \E t \in {"cloud_det", "cloud_detection"} : \E clm \in [1..NScenes -> ClmImages] :
          WaterStep(t, Ok(Put(wpatch, Clm, clm)))
    /\ UNCHANGED <<detected, plot>>
    /\ UNCHANGED patchVars
    /\ UNCHANGED wfVars
    /\ UNCHANGED execVars

\* add_nominal_water = VectorToRaster(..., (FeatureType.MASK_TIMELESS, 'NOMINAL_WATER'),
\*                                    raster_shape=(FeatureType.MASK, 'IS_DATA'), ...)
ExecuteAddNominalWater ==
    /\ \E nominal \in NominalWaterImages :
          WaterStep("add_nominal_water", Ok(Put(wpatch, NominalWater, nominal)))
    /\ UNCHANGED <<detected, plot>>
    /\ UNCHANGED patchVars
    /\ UNCHANGED wfVars
    /\ UNCHANGED execVars

\* add_valmask / add_valid_mask = AddValidDataMaskTask(predicate=...): stores
\* what the predicate returns as MASK 'VALID_DATA'.
ExecuteAddValidMask ==
    /\ \E t \in {"add_valmask", "add_valid_mask"} :
          WaterStep(t, Ok(Put(wpatch, ValidData, ValidDataPredicate(wpatch))))
    /\ UNCHANGED <<detected, plot>>
    /\ UNCHANGED patchVars
    /\ UNCHANGED wfVars
    /\ UNCHANGED execVars

\* add_coverage = AddValidDataCoverage()
ExecuteAddCoverage ==
    /\ WaterStep("add_coverage", AddValidDataCoverageExecute(wpatch))
    /\ UNCHANGED <<detected, plot>>
    /\ UNCHANGED patchVars
    /\ UNCHANGED wfVars
    /\ UNCHANGED execVars

\* remove_cloudy_scenes = SimpleFilterTask((FeatureType.MASK, 'VALID_DATA'),
\*                                         ValidDataCoveragePredicate(0.2))
ExecuteRemoveCloudyScenes ==
    /\ WaterStep("remove_cloudy_scenes", Ok(RemoveCloudyScenes(wpatch)))
    /\ UNCHANGED <<detected, plot>>
    /\ UNCHANGED patchVars
    /\ UNCHANGED wfVars
    /\ UNCHANGED execVars

\* water_detection = WaterDetector() of workshop.ipynb
NdwiScenes == IF Ndwi \in DOMAIN wpatch THEN wpatch[Ndwi] ELSE <<>>
OtsuResults(ndwis) ==
    {f \in [1..Len(ndwis) -> UNION {ThresholdOtsu(image) : image \in NdwiImages}] :
        \A i \in 1..Len(ndwis) : f[i] \in ThresholdOtsu(ndwis[i])}
ExecuteWaterDetection ==
    /\ \E otsus \in OtsuResults(NdwiScenes) :
          /\ WaterStep("water_detection",
                       Ok(WaterDetectorExecute(wpatch, otsus)))
          /\ detected' = IF werr' # "none" THEN detected
                         ELSE [i \in 1..Len(NdwiScenes) |->
                                 [ndwi |-> NdwiScenes[i], otsu |-> otsus[i],
                                  water |-> DetectWater(NdwiScenes[i], otsus[i])]]
    /\ UNCHANGED plot
    /\ UNCHANGED patchVars
    /\ UNCHANGED wfVars
    /\ UNCHANGED execVars

\* water_det = WaterDetector() of the water-levels notebook: the outline and
\* the level that get_water_level_optical measures on the NDWI of each date.
MeasuredLevels == {<<1, 2>>, <<1, 1>>}
ExecuteWaterDet ==
    /\ \E levels \in [1..NScenes -> MeasuredLevels] :
          WaterStep("water_det",
                    Ok(Put(Put(wpatch, WaterOutline, wpatch[Timestamp]),
                           WaterLevel, NewAxis(levels))))
    /\ UNCHANGED <<detected, plot>>
    /\ UNCHANGED patchVars
    /\ UNCHANGED wfVars
    /\ UNCHANGED execVars

\* workflow.execute(...) has returned the patch
WaterDone ==
    /\ notebook \in Notebooks
    /\ werr = "none"
    /\ \A t \in WaterTasks(notebook) : t \in Range(wdone)

\* ax = plot_water_levels(eopatch, 1.0) / plot_water_levels(eopatch, 0.02)
MaxCoverages == {<<1, 1>>, <<2, 100>>}
PlotWaterLevels ==
    /\ WaterDone
    /\ ~plot.drawn
    /\ \E max_coverage \in MaxCoverages : plot' = PlotWaterLevelsOf(wpatch, max_coverage)
    /\ UNCHANGED <<notebook, wpatch, wdone, werr, detected>>
    /\ UNCHANGED patchVars
    /\ UNCHANGED wfVars
    /\ UNCHANGED execVars

WaterNext ==
    \/ ExecuteInputTask
    \/ ExecuteAddNdwi
    \/ ExecuteCloudDetection
    \/ ExecuteAddNominalWater
    \/ ExecuteAddValidMask
    \/ ExecuteAddCoverage
    \/ ExecuteRemoveCloudyScenes
    \/ ExecuteWaterDetection
    \/ ExecuteWaterDet
    \/ PlotWaterLevels

SpecWater == WaterInit /\ [][WaterNext]_vars

\* ---------------------------------------------------------------- water claims
Pixels(image) == {rc \in (1..Len(image)) \X (1..Len(image[1])) : TRUE}
NonzeroPixels(image) == {rc \in Pixels(image) : image[rc[1]][rc[2]] # 0}
ZeroPixels(image) == {rc \in Pixels(image) : image[rc[1]][rc[2]] = 0}

C15_PlotsEveryTimestamp ==
    (plot.drawn /\ RatEq(plot.max_coverage, <<1, 1>>)) => plot.dates = wpatch[Timestamp]

\* C17: in both water workflows no task reads a feature that no earlier task
\* of the chain has written: no task ends in KeyError, and what the executed
\* tasks read is in the patch.
C17_NoReadBeforeWrite ==
    notebook \in Notebooks =>
        /\ werr = "none"
        /\ \A t \in Range(wdone) : ReadsOf(t) \subseteq DOMAIN wpatch
        /\ \A t \in WaterTasks(notebook) : WaterReady(t) => ReadsOf(t) \subseteq DOMAIN wpatch

\* C17 witness: the workflow of the workshop notebook has run all eight tasks
\* on a patch that still has a frame.
C17_Witness ==
    /\ notebook = "workshop"
    /\ WaterDone
    /\ Len(wdone) = 8
    /\ Len(wpatch[Timestamp]) >= 1
    /\ WaterLevel \in DOMAIN wpatch

\* C18: detect_water marks a pixel exactly when its value is greater than the
\* threshold, which is the Otsu threshold when the image has more than one
\* value and 1.0 otherwise; an image of one value v <= 1 has no water pixel.
C18_WaterIffAboveThreshold ==
    \A i \in 1..Len(detected) :
        LET d == detected[i]
            values == {d.ndwi[rc[1]][rc[2]] : rc \in Pixels(d.ndwi)}
            thr == IF Cardinality(values) > 1 THEN d.otsu ELSE 10
        IN  /\ \A rc \in Pixels(d.ndwi) :
                  (d.water[rc[1]][rc[2]] # 0) <=> (d.ndwi[rc[1]][rc[2]] > thr)
            /\ (Cardinality(values) = 1 /\ \A v \in values : v <= 10)
                  => NonzeroPixels(d.water) = {}

\* C18 witness: a frame whose pixels all are 1.0 got no water pixel, and a
\* frame with two values got its higher pixel marked.
C18_Witness ==
    /\ \E i \in 1..Len(detected) :
          /\ detected[i].ndwi = << <<10, 10>> >>
          /\ NonzeroPixels(detected[i].water) = {}
    /\ \E i \in 1..Len(detected) :
          /\ detected[i].ndwi = << <<0, 5>> >>
          /\ detected[i].water = << <<0, 1>> >>

CallForms ==
    { [name |-> "execute_kw", positional |-> <<"eopatch">>, keywords |-> {"data"}],
      [name |-> "call_positional", positional |-> <<"eopatch", "data">>, keywords |-> {}],
      [name |-> "call_kw", positional |-> <<"eopatch">>, keywords |-> {"data"}] }

\* def execute(self, eopatch, *, data): one parameter is filled by position,
\* data only by keyword; any other way of passing arguments is a TypeError.
AddFeatureBindLoose(positional, keywords) ==
    Range(positional) \cup keywords = {"eopatch", "data"}

AddFeatureBind(positional, keywords) ==
    Len(positional) = 1 /\ keywords = {"data"}

\* add_feature_task(...) and add_feature_task.execute(...): the task called
\* as a function hands its arguments on to execute as they were given.
AddFeatureCall(p, feature, positional, keywords, data) ==
    IF AddFeatureBind(positional, keywords)
    THEN AddFeatureExecute(p, feature, data)
    ELSE [exc |-> "TypeError", patch |-> p, ret |-> "nothing"]

\* add_feature_task = AddFeature((FeatureType.DATA, 'NEW_BANDS')), and the same
\* task for a timeless feature.
CallFeatures == {<<"DATA", "NEW_BANDS">>, <<"DATA_TIMELESS", "NEW_BANDS">>}

CallAddFeature(form, feature, data) ==
    /\ nOps < MaxOps
    /\ LET r == AddFeatureCall(patch, feature, form.positional, form.keywords, data)
       IN  /\ patch' = r.patch
           /\ lastOp' = [op |-> form.name, feature |-> feature,
                         new_feature |-> NoKey, data |-> data, old |-> Old(patch, feature),
                         exc |-> r.exc, ret |-> r.ret]
    /\ nOps' = nOps + 1
    /\ UNCHANGED wfVars
    /\ UNCHANGED execVars
    /\ UNCHANGED waterVars

CallNext ==
    \E form \in CallForms, feature \in CallFeatures, data \in Arrays :
        CallAddFeature(form, feature, data)

SpecCall == PatchInit /\ [][CallNext]_vars

\* What eopatch = add_feature_task.execute(eopatch, data=data) leaves: the
\* patch with the feature set to data, returned.
SetTo(p, feature, data) == [k \in DOMAIN p \cup {feature} |-> IF k = feature THEN data ELSE p[k]]

====
